---- MODULE Spec2Model ----
(***************************************************************************)
(* Model of the email client (application/python/auth.py and               *)
(* application/python/email_client.py).                                    *)
(*                                                                         *)
(* The program is single threaded.  Its state is the Python call stack,    *)
(* the locals of the four functions, the exception in flight, and the       *)
(* observable traces: the calls made to the identity SDK, the HTTP         *)
(* requests issued and the lines handed to ic().  The identity provider    *)
(* and the mail API are the environment: what they answer is drawn from    *)
(* small sets.                                                             *)
(***************************************************************************)
EXTENDS Integers, Sequences, FiniteSets, TLC

\* ------------------------------------------------------------------ bounds
MaxAccounts == 1
MaxEmails == 2

\* ------------------------------------------------------- program constants
SCOPE == <<"Mail.ReadWrite", "Mail.Send">>
REDIRECT_URI == "http://localhost:5000/callback"
GRAPH_API_ENDPOINT == "https://graph.microsoft.com/v1.0"
SEND_OK == 202
LIST_OK == 200

\* ------------------------------------------------------------ Python values
\* Python's None where a string is otherwise expected.
None == "None"

\* A value that is either None or a dict.  A dict is its set of
\* <<key, value>> items; the empty dict is falsy, like None.
PyNone == [kind |-> "None", items |-> {}]
Dict(items) == [kind |-> "dict", items |-> items]

\* bool(v)
Truthy(v) == v.kind = "dict" /\ v.items # {}

\* key in d
HasKey(d, k) == \E it \in d.items : it[1] = k

\* d[k], defined when HasKey(d, k)
Subscript(d, k) == (CHOOSE it \in d.items : it[1] = k)[2]

\* d.get(k): None when the key is absent
DictGet(d, k) == IF HasKey(d, k) THEN Subscript(d, k) ELSE None

\* ------------------------------------------------------ environment values
Accounts == {"acc1", "acc2"}
Tokens == {"tokA", "tokB"}
Descriptions == {"consent denied"}

RECURSIVE SeqsUpTo(_, _)
SeqsUpTo(S, n) ==
    IF n = 0 THEN {<<>>}
    ELSE LET shorter == SeqsUpTo(S, n - 1)
         IN  shorter \cup {Append(s, x) : s \in {t \in shorter : Len(t) = n - 1}, x \in S}

\* What app.get_accounts() can answer.
AccountLists == SeqsUpTo(Accounts, MaxAccounts)

\* What app.acquire_token_silent() can answer: None, an empty dict, a dict
\* with an access token, or a non-empty dict that carries none.
SilentResults ==
    {PyNone, Dict({})}
    \cup {Dict({<<"access_token", t>>, <<"token_type", "Bearer">>}) : t \in Tokens}
    \cup {Dict({<<"token_type", "Bearer">>})}

\* What app.acquire_token_interactive() can answer: a dict with an access
\* token, an error dict with a description, or an error dict without one.
InteractiveResults ==
    {Dict({<<"access_token", t>>, <<"token_type", "Bearer">>}) : t \in Tokens}
    \cup {Dict({<<"error", "access_denied">>, <<"error_description", d>>}) : d \in Descriptions}
    \cup {Dict({<<"error", "access_denied">>})}

\* Arguments of a direct send_email call.
Recipients == {"a@b.com", "c@d.com"}
SubjectsOut == {"", "S"}
BodiesOut == {"B"}

\* The arguments the entry point passes (email_client.py lines 50-54).
MAIN_RECIPIENT == "ottobjonas03@outlook.com"
MAIN_SUBJECT == "test email"
MAIN_BODY == "this is a test email from an email client i developed"

\* Message objects of a listing.  The nested "from" dict is flattened into
\* dotted keys; "{}" marks a nested dict that is present.
Addresses == {"x@y.com", "z@w.com"}
SubjectsIn == {"hello"}
Previews == {"preview"}

FullEmail(a, s, p) ==
    { <<"from", "{}">>, <<"from.emailAddress", "{}">>,
      <<"from.emailAddress.address", a>>, <<"subject", s>>, <<"bodyPreview", p>> }

\* The sets of keys a message object can lack.
MissingKeys ==
    { {},
      {"from", "from.emailAddress", "from.emailAddress.address"},
      {"from.emailAddress", "from.emailAddress.address"},
      {"from.emailAddress.address"},
      {"subject"},
      {"bodyPreview"} }

Emails ==
    { Dict({it \in FullEmail(a, s, p) : it[1] \notin drop}) :
        a \in Addresses, s \in SubjectsIn, p \in Previews, drop \in MissingKeys }

\* Response bodies.  A body is raw text or a JSON object; a JSON object may
\* or may not have a "value" array.
Texts == {"Unauthorized"}

Contents ==
    {[kind |-> "text", text |-> t, hasValue |-> FALSE, value |-> <<>>] : t \in Texts}
    \cup {[kind |-> "object", text |-> "", hasValue |-> FALSE, value |-> <<>>]}
    \cup {[kind |-> "object", text |-> "", hasValue |-> TRUE, value |-> v] :
            v \in SeqsUpTo(Emails, MaxEmails)}

SendStatuses == {202, 400}
ListStatuses == {200, 202, 401}

SendResponses ==
    {[status_code |-> st, content |-> c] :
        st \in SendStatuses, c \in {c \in Contents : c.kind = "text"}}
ListResponses == {[status_code |-> st, content |-> c] : st \in ListStatuses, c \in Contents}

NoResponse == [status_code |-> 0, content |-> [kind |-> "text", text |-> "", hasValue |-> FALSE, value |-> <<>>]]

\* response.text: the raw body.
ResponseText(r) == r.content

\* response.json() raises when the body is not JSON.
JsonDecodes(r) == r.content.kind = "object"

\* response.json().get("value", [])
JsonValue(r) == IF r.content.hasValue THEN r.content.value ELSE <<>>


\* -------------------------------------------------------------------- state
VARIABLES
    idp,           \* identity provider: the cached accounts and what a silent lookup yields
    entry,         \* the entry point that was run ("none" before it starts)
    stack,         \* call stack: frames [fn, pc], the last one is executing
    recipient, subject, body,   \* arguments of send_email
    accounts,      \* local of get_cached_access_token
    result,        \* local "result" of get_access_token and of get_cached_access_token
    access_token,  \* local of send_email and of get_inbox_emails
    ret,           \* value returned by the call that returned last
    raised,        \* the exception in flight, or NoException
    response,      \* local of send_email / get_inbox_emails
    emails,        \* local of get_inbox_emails
    idx,           \* position of the for loop in emails (1-based)
    idpCalls,      \* trace of the calls made to the identity SDK
    requests,      \* trace of the HTTP requests issued
    output         \* trace of the values handed to ic()

vars == <<idp, entry, stack, recipient, subject, body, accounts, result, access_token,
          ret, raised, response, emails, idx, idpCalls, requests, output>>

locals == <<recipient, subject, body, accounts, result, access_token, response, emails, idx>>
traces == <<idpCalls, requests, output>>

NoException == [type |-> "none", args |-> <<>>]

TokenFns == {"get_access_token", "get_cached_access_token"}
MailFns == {"send_email", "get_inbox_emails"}

Frame(fn, pc) == [fn |-> fn, pc |-> pc]
Top == stack[Len(stack)]
Pop == SubSeq(stack, 1, Len(stack) - 1)

\* The function on top of the stack is about to execute the statement at pc
\* and no exception is in flight.
At(fn, pc) == stack # <<>> /\ Top = Frame(fn, pc) /\ raised = NoException

\* Call fn: the caller resumes at resume when fn returns.
Call(fn, resume) ==
    stack' = Append(SubSeq(stack, 1, Len(stack) - 1) \o <<Frame(Top.fn, resume)>>,
                    Frame(fn, "start"))

Init ==
    /\ idp \in [accounts : AccountLists, silent : SilentResults]
    /\ entry = "none"
    /\ stack = <<>>
    /\ recipient = None /\ subject = None /\ body = None
    /\ accounts = <<>>
    /\ result = [f \in TokenFns |-> PyNone]
    /\ access_token = [f \in MailFns |-> None]
    /\ ret = None
    /\ raised = NoException
    /\ response = [f \in MailFns |-> NoResponse]
    /\ emails = <<>>
    /\ idx = 0
    /\ idpCalls = <<>>
    /\ requests = <<>>
    /\ output = <<>>

\* ------------------------------------------------------------ entry points
\* The interpreter runs email_client.py as a script.
RunMain ==
    /\ entry = "none"
    /\ entry' = "__main__"
    /\ stack' = <<Frame("__main__", "send_email")>>
    /\ UNCHANGED <<idp, locals, ret, raised, traces>>

\* A caller (a test, another module) calls one function directly.
CallSendEmail ==
    /\ entry = "none"
    /\ \E r \in Recipients, s \in SubjectsOut, b \in BodiesOut :
          /\ recipient' = r /\ subject' = s /\ body' = b
    /\ entry' = "send_email"
    /\ stack' = <<Frame("send_email", "start")>>
    /\ UNCHANGED <<idp, accounts, result, access_token, response, emails, idx, ret, raised, traces>>

CallGetInboxEmails ==
    /\ entry = "none"
    /\ entry' = "get_inbox_emails"
    /\ stack' = <<Frame("get_inbox_emails", "start")>>
    /\ UNCHANGED <<idp, locals, ret, raised, traces>>

CallGetAccessToken ==
    /\ entry = "none"
    /\ entry' = "get_access_token"
    /\ stack' = <<Frame("get_access_token", "start")>>
    /\ UNCHANGED <<idp, locals, ret, raised, traces>>

CallGetCachedAccessToken ==
    /\ entry = "none"
    /\ entry' = "get_cached_access_token"
    /\ stack' = <<Frame("get_cached_access_token", "start")>>
    /\ UNCHANGED <<idp, locals, ret, raised, traces>>

\* ------------------------------------------------------------------ auth.py
IdpCall(method, account) ==
    [method |-> method, scopes |-> SCOPE, account |-> account,
     redirect_uri |-> IF method = "acquire_token_interactive" THEN REDIRECT_URI ELSE None]

\* Mutant of AuthenticationError: the provider's description is left out.
AuthenticationError_NoDescription(res) ==
    [type |-> "Exception", args |-> <<"could not authenticate: ">>]

\* The exception get_access_token raises for a result without a token.
AuthenticationError(res) ==
    [type |-> "Exception",
     args |-> <<"could not authenticate: ", DictGet(res, "error_description")>>]

KeyError(key) == [type |-> "KeyError", args |-> <<key>>]

\* Whether the interactive result lets get_access_token return a token.
InteractiveYieldsToken(res) == HasKey(res, "access_token")

\* get_access_token(): one interactive acquisition, then the token or the
\* exception.
get_access_token ==
    /\ At("get_access_token", "start")
    /\ \E res \in InteractiveResults :
          /\ result' = [result EXCEPT !["get_access_token"] = res]
          /\ idpCalls' = Append(idpCalls, IdpCall("acquire_token_interactive", None))
          /\ IF InteractiveYieldsToken(res)
             THEN /\ ret' = Subscript(res, "access_token")
                  /\ raised' = raised
                  /\ stack' = Pop
             ELSE /\ raised' = AuthenticationError(res)
                  /\ ret' = ret
                  /\ stack' = stack
    /\ UNCHANGED <<idp, entry, recipient, subject, body, accounts, access_token,
                   response, emails, idx, requests, output>>

\* Whether get_cached_access_token attempts the silent lookup.
TriesSilent(accs) == accs # <<>>

\* Mutant of SilentAccepted: the test of the silent result is inverted.
SilentAccepted_Negated(res) == ~Truthy(res)

\* Whether get_cached_access_token takes the silent result as its answer.
SilentAccepted(res) == Truthy(res)

\* get_cached_access_token() up to its return or its call of
\* get_access_token.
get_cached_access_token ==
    /\ At("get_cached_access_token", "start")
    /\ accounts' = idp.accounts
    /\ IF TriesSilent(idp.accounts)
       THEN /\ result' = [result EXCEPT !["get_cached_access_token"] = idp.silent]
            /\ idpCalls' = idpCalls \o <<IdpCall("get_accounts", None),
                                         IdpCall("acquire_token_silent", idp.accounts[1])>>
            /\ IF SilentAccepted(idp.silent)
               THEN IF HasKey(idp.silent, "access_token")
                    THEN /\ ret' = Subscript(idp.silent, "access_token")
                         /\ stack' = Pop
                         /\ raised' = raised
                    ELSE /\ raised' = KeyError("access_token")
                         /\ ret' = ret
                         /\ stack' = stack
               ELSE /\ Call("get_access_token", "return")
                    /\ UNCHANGED <<ret, raised>>
       ELSE /\ idpCalls' = Append(idpCalls, IdpCall("get_accounts", None))
            /\ Call("get_access_token", "return")
            /\ UNCHANGED <<result, ret, raised>>
    /\ UNCHANGED <<idp, entry, recipient, subject, body, access_token,
                   response, emails, idx, requests, output>>

\* Mutant of get_cached_access_token_return: the fallback's value is dropped
\* (a call without "return").
get_cached_access_token_return_DropsValue ==
    /\ At("get_cached_access_token", "return")
    /\ stack' = Pop
    /\ ret' = None
    /\ UNCHANGED <<idp, entry, locals, raised, traces>>

\* return get_access_token(): hands the callee's token to the caller.
get_cached_access_token_return ==
    /\ At("get_cached_access_token", "return")
    /\ stack' = Pop
    /\ UNCHANGED <<idp, entry, locals, ret, raised, traces>>


\* ---------------------------------------------------------- email_client.py
Headers(token, withContentType) ==
    [Authorization |-> <<"Bearer ", token>>,
     ContentType |-> IF withContentType THEN "application/json" ELSE None]

\* Mutant of Payload: subject and body are interchanged.
Payload_SwapsSubjectBody(r, s, b) ==
    [message |->
        [subject |-> b,
         body |-> [contentType |-> "Text", content |-> s],
         toRecipients |-> <<[emailAddress |-> [address |-> r]]>>],
     saveToSentItems |-> "true"]

\* The JSON payload of send_email.
Payload(r, s, b) ==
    [message |->
        [subject |-> s,
         body |-> [contentType |-> "Text", content |-> b],
         toRecipients |-> <<[emailAddress |-> [address |-> r]]>>],
     saveToSentItems |-> "true"]

SendRequest(token, r, s, b) ==
    [method |-> "POST", url |-> <<GRAPH_API_ENDPOINT, "/me/sendMail">>,
     headers |-> Headers(token, TRUE), json |-> <<Payload(r, s, b)>>]

ListRequest(token) ==
    [method |-> "GET", url |-> <<GRAPH_API_ENDPOINT, "/me/messages">>,
     headers |-> Headers(token, FALSE), json |-> <<>>]

\* What send_email hands to ic() for a response.
SendReport(resp) ==
    IF resp.status_code = SEND_OK
    THEN <<"email sent successfully">>
    ELSE <<"error sending email: ", resp.status_code, ", ", ResponseText(resp)>>

\* send_email line 10: the token comes from get_access_token.
send_email_start ==
    /\ At("send_email", "start")
    /\ Call("get_access_token", "post")
    /\ UNCHANGED <<idp, entry, locals, ret, raised, traces>>

\* send_email lines 10-29, once get_access_token has returned: one POST,
\* one report, return None.
send_email_post ==
    /\ At("send_email", "post")
    /\ access_token' = [access_token EXCEPT !["send_email"] = ret]
    /\ requests' = Append(requests, SendRequest(ret, recipient, subject, body))
    /\ \E resp \in SendResponses :
          /\ response' = [response EXCEPT !["send_email"] = resp]
          /\ output' = Append(output, SendReport(resp))
    /\ ret' = None
    /\ stack' = Pop
    /\ UNCHANGED <<idp, entry, recipient, subject, body, accounts, result, emails, idx,
                   raised, idpCalls>>

\* Mutant of ListSucceeded: any 2xx status counts as success.
ListSucceeded_Any2xx(resp) == resp.status_code \in 200..299

\* Whether get_inbox_emails reads the response as a message list.
ListSucceeded(resp) == resp.status_code = LIST_OK

ListFailureReport(resp) ==
    <<"Error fetching emails: ", resp.status_code, ", ", ResponseText(resp)>>

Separator == <<"-", "*", 40>>

\* The key whose lookup fails in email['from']['emailAddress']['address'],
\* or None.
MissingFromKey(email) ==
    IF ~HasKey(email, "from") THEN "from"
    ELSE IF ~HasKey(email, "from.emailAddress") THEN "emailAddress"
    ELSE IF ~HasKey(email, "from.emailAddress.address") THEN "address"
    ELSE None

\* The exception the loop body raises for a message, or NoException.
EmailError(email) ==
    IF MissingFromKey(email) # None THEN KeyError(MissingFromKey(email))
    ELSE IF ~HasKey(email, "subject") THEN KeyError("subject")
    ELSE IF ~HasKey(email, "bodyPreview") THEN KeyError("bodyPreview")
    ELSE NoException

\* The three lines of a message's projection (lines 41-43).
FromLine(email) == <<"From: ", Subscript(email, "from.emailAddress.address")>>
SubjectLine(email) == <<"Subject: ", Subscript(email, "subject")>>
BodyLine(email) == <<"Body: ", Subscript(email, "bodyPreview")>>

\* Mutant of Projection: the subject line shows the body preview.
Projection_SubjectShowsPreview(email) ==
    <<FromLine(email), <<"Subject: ", Subscript(email, "bodyPreview")>>, BodyLine(email), Separator>>

\* The projection of a message: what the loop body hands to ic() when no
\* lookup fails.
Projection(email) == <<FromLine(email), SubjectLine(email), BodyLine(email), Separator>>

\* What the loop body hands to ic() for a message: the lines that come
\* before the first failing lookup.
EmailLines(email) ==
    IF MissingFromKey(email) # None THEN <<>>
    ELSE IF ~HasKey(email, "subject") THEN <<FromLine(email)>>
    ELSE IF ~HasKey(email, "bodyPreview") THEN <<FromLine(email), SubjectLine(email)>>
    ELSE Projection(email)

\* get_inbox_emails line 33.
get_inbox_emails_start ==
    /\ At("get_inbox_emails", "start")
    /\ Call("get_access_token", "get")
    /\ UNCHANGED <<idp, entry, locals, ret, raised, traces>>

\* get_inbox_emails lines 33-39 and 45-46, once get_access_token has
\* returned: one GET, then the message list is read or the failure reported.
get_inbox_emails_get ==
    /\ At("get_inbox_emails", "get")
    /\ access_token' = [access_token EXCEPT !["get_inbox_emails"] = ret]
    /\ requests' = Append(requests, ListRequest(ret))
    /\ \E resp \in ListResponses :
          /\ response' = [response EXCEPT !["get_inbox_emails"] = resp]
          /\ IF ListSucceeded(resp)
             THEN IF JsonDecodes(resp)
                  THEN /\ emails' = JsonValue(resp)
                       /\ idx' = 1
                       /\ stack' = Pop \o <<Frame("get_inbox_emails", "loop")>>
                       /\ UNCHANGED <<raised, ret, output>>
                  ELSE /\ raised' = [type |-> "JSONDecodeError", args |-> <<>>]
                       /\ UNCHANGED <<emails, idx, stack, ret, output>>
             ELSE /\ output' = Append(output, ListFailureReport(resp))
                  /\ ret' = None
                  /\ stack' = Pop
                  /\ UNCHANGED <<emails, idx, raised>>
    /\ UNCHANGED <<idp, entry, recipient, subject, body, accounts, result, idpCalls>>

\* get_inbox_emails lines 40-44: one iteration of the for loop, or its end.
get_inbox_emails_loop ==
    /\ At("get_inbox_emails", "loop")
    /\ IF idx > Len(emails)
       THEN /\ ret' = None
            /\ stack' = Pop
            /\ UNCHANGED <<idx, raised, output>>
       ELSE /\ output' = output \o EmailLines(emails[idx])
            /\ raised' = EmailError(emails[idx])
            /\ idx' = IF EmailError(emails[idx]) = NoException THEN idx + 1 ELSE idx
            /\ UNCHANGED <<ret, stack>>
    /\ UNCHANGED <<idp, entry, recipient, subject, body, accounts, result, access_token,
                   response, emails, idpCalls, requests>>

\* Mutant of MainAfterSend: the script ends after the send.
MainAfterSend_SkipsListing == "end"

\* What the entry point does after send_email returns (line 55).
MainAfterSend == "get_inbox_emails"

\* __main__ lines 50-54.
main_send_email ==
    /\ At("__main__", "send_email")
    /\ recipient' = MAIN_RECIPIENT /\ subject' = MAIN_SUBJECT /\ body' = MAIN_BODY
    /\ Call("send_email", MainAfterSend)
    /\ UNCHANGED <<idp, entry, accounts, result, access_token, response, emails, idx,
                   ret, raised, traces>>

\* __main__ line 55.
main_get_inbox_emails ==
    /\ At("__main__", "get_inbox_emails")
    /\ Call("get_inbox_emails", "end")
    /\ UNCHANGED <<idp, entry, locals, ret, raised, traces>>

\* The script ends.
main_end ==
    /\ At("__main__", "end")
    /\ stack' = Pop
    /\ UNCHANGED <<idp, entry, locals, ret, raised, traces>>

\* No function has a try block: an exception in flight leaves the frame it
\* is in.
Propagate ==
    /\ raised # NoException
    /\ stack # <<>>
    /\ stack' = Pop
    /\ UNCHANGED <<idp, entry, locals, ret, raised, traces>>

Next ==
    \/ RunMain
    \/ CallSendEmail
    \/ CallGetInboxEmails
    \/ CallGetAccessToken
    \/ CallGetCachedAccessToken
    \/ get_access_token
    \/ get_cached_access_token
    \/ get_cached_access_token_return
    \/ send_email_start
    \/ send_email_post
    \/ get_inbox_emails_start
    \/ get_inbox_emails_get
    \/ get_inbox_emails_loop
    \/ main_send_email
    \/ main_get_inbox_emails
    \/ main_end
    \/ Propagate

Spec == Init /\ [][Next]_vars

\* ================================================================== claims
\* The run has ended: an entry point was run and its stack is empty.
Finished == entry # "none" /\ stack = <<>>

\* Number of calls of an identity SDK method so far.
CountCalls(m) == Cardinality({i \in DOMAIN idpCalls : idpCalls[i].method = m})

\* The silent lookup of the identity provider yields a token.
SilentHasToken == \E it \in idp.silent.items : it[1] = "access_token"
SilentToken == (CHOOSE it \in idp.silent.items : it[1] = "access_token")[2]

\* The last interactive acquisition yielded a token.
InteractiveHasToken == \E it \in result["get_access_token"].items : it[1] = "access_token"
InteractiveToken ==
    (CHOOSE it \in result["get_access_token"].items : it[1] = "access_token")[2]

\* The last interactive acquisition was made and yielded no token.
InteractiveFailed == result["get_access_token"].kind = "dict" /\ ~InteractiveHasToken

\* The description the provider gave with its last interactive answer.
ProviderDescription ==
    IF \E it \in result["get_access_token"].items : it[1] = "error_description"
    THEN (CHOOSE it \in result["get_access_token"].items : it[1] = "error_description")[2]
    ELSE "None"

\* C1: in a call of get_cached_access_token, when the provider reports a
\* cached account and the silent lookup yields a token, the interactive
\* flow is never invoked and the call returns the silently obtained token.
C1_SilentTokenReturned ==
    (entry = "get_cached_access_token" /\ idp.accounts # <<>> /\ SilentHasToken) =>
        /\ CountCalls("acquire_token_interactive") = 0
        /\ idpCalls # <<>> =>
              /\ Finished
              /\ raised = NoException
              /\ ret = SilentToken
              /\ CountCalls("acquire_token_silent") = 1

C1_Witness ==
    /\ entry = "get_cached_access_token"
    /\ idp.accounts # <<>>
    /\ SilentHasToken
    /\ Finished
    /\ ret = SilentToken

\* C2: in a call of get_cached_access_token, when the provider reports no
\* cached account, the silent lookup is never attempted, the call goes on to
\* the interactive acquisition, and it ends as that acquisition ended: with
\* its token, or with its authentication error.
C2_NoAccountFallsThrough ==
    (entry = "get_cached_access_token" /\ idp.accounts = <<>>) =>
        /\ CountCalls("acquire_token_silent") = 0
        /\ idpCalls # <<>> =>
              \/ stack = <<Frame("get_cached_access_token", "return"),
                           Frame("get_access_token", "start")>>
              \/ CountCalls("acquire_token_interactive") = 1
        /\ Finished =>
              /\ CountCalls("acquire_token_interactive") = 1
              /\ IF InteractiveHasToken
                 THEN raised = NoException /\ ret = InteractiveToken
                 ELSE /\ raised.type = "Exception"
                      /\ raised.args = <<"could not authenticate: ", ProviderDescription>>

C2_Witness ==
    /\ entry = "get_cached_access_token"
    /\ idp.accounts = <<>>
    /\ Finished
    /\ InteractiveHasToken
    /\ ret = InteractiveToken

\* C3: a mail operation takes its token silent-first: when a cached account
\* exists and the silent lookup yields a token, the operation uses that
\* token and the interactive flow is not invoked.
C3_MailOperationSilentFirst ==
    (entry \in {"send_email", "get_inbox_emails", "__main__"}
        /\ idp.accounts # <<>> /\ SilentHasToken) =>
        /\ CountCalls("acquire_token_interactive") = 0
        /\ \A f \in MailFns : access_token[f] \in {None, SilentToken}


\* C4: in a call send_email(r, s, b) whose token acquisition succeeded:
\* at most one request is ever issued; when the call has ended it has issued
\* exactly one POST to /me/sendMail with the token as bearer and a payload
\* of the fixed shape carrying r, s and b and saveToSentItems, it has
\* reported success for status 202 and the status code and body for any other
\* status, and it has returned normally.
C4_SendOnePostAndReport ==
    (entry = "send_email" /\ InteractiveHasToken) =>
        /\ Len(requests) <= 1
        /\ ~Finished => raised = NoException
        /\ Finished =>
              /\ raised = NoException
              /\ ret = "None"
              /\ Len(requests) = 1
              /\ requests[1].method = "POST"
              /\ requests[1].url = <<"https://graph.microsoft.com/v1.0", "/me/sendMail">>
              /\ requests[1].headers.Authorization = <<"Bearer ", InteractiveToken>>
              /\ requests[1].headers.ContentType = "application/json"
              /\ requests[1].json =
                    << [message |->
                          [subject |-> subject,
                           body |-> [contentType |-> "Text", content |-> body],
                           toRecipients |-> <<[emailAddress |-> [address |-> recipient]]>>],
                        saveToSentItems |-> "true"] >>
              /\ Len(output) = 1
              /\ IF response["send_email"].status_code = 202
                 THEN output[1] = <<"email sent successfully">>
                 ELSE /\ output[1][1] = "error sending email: "
                      /\ output[1][2] = response["send_email"].status_code
                      /\ output[1][4] = response["send_email"].content

C4_Witness ==
    /\ entry = "send_email"
    /\ Finished
    /\ recipient = "a@b.com"
    /\ subject = "S"
    /\ Len(requests) = 1
    /\ response["send_email"].status_code = 400
    /\ output[1][1] = "error sending email: "

\* The listing call received status 200 and a JSON body whose "value" array
\* holds message objects that all expose sender address, subject and preview.
ListingOfMessages ==
    /\ response["get_inbox_emails"].status_code = 200
    /\ response["get_inbox_emails"].content.kind = "object"
    /\ \A i \in DOMAIN response["get_inbox_emails"].content.value :
          \A k \in {"from.emailAddress.address", "subject", "bodyPreview"} :
             \E it \in response["get_inbox_emails"].content.value[i].items : it[1] = k

ListedMessages == response["get_inbox_emails"].content.value

Field(email, k) == (CHOOSE it \in email.items : it[1] = k)[2]

\* C5: a call of get_inbox_emails that received status 200 with n message
\* objects (n >= 0) has, when it ends, returned without error and emitted
\* exactly n projections, the i-th one carrying the sender address, subject
\* and body preview of the i-th message; while it runs, the output is a
\* prefix of that.
C5_ListingProjectsEveryMessage ==
    (entry = "get_inbox_emails" /\ ListingOfMessages) =>
        /\ raised = NoException
        /\ Len(output) <= 4 * Len(ListedMessages)
        /\ Finished => Len(output) = 4 * Len(ListedMessages) /\ ret = "None"
        /\ \A i \in 1..Len(ListedMessages) :
              4 * i <= Len(output) =>
                 /\ output[4 * i - 3] =
                       <<"From: ", Field(ListedMessages[i], "from.emailAddress.address")>>
                 /\ output[4 * i - 2] = <<"Subject: ", Field(ListedMessages[i], "subject")>>
                 /\ output[4 * i - 1] = <<"Body: ", Field(ListedMessages[i], "bodyPreview")>>
                 /\ output[4 * i][1] = "-"

C5_Witness ==
    /\ entry = "get_inbox_emails"
    /\ ListingOfMessages
    /\ Finished
    /\ Len(ListedMessages) = 2
    /\ ListedMessages[1] # ListedMessages[2]
    /\ Len(output) = 8

\* C6: a call of get_inbox_emails that received a status other than 200 has
\* issued its single GET to /me/messages, reported the failure with the
\* status code and the response body, emitted nothing else, never read the
\* body as a message list, and returned normally.
C6_ListingFailureReported ==
    (entry = "get_inbox_emails"
        /\ response["get_inbox_emails"].status_code \notin {0, 200}) =>
        /\ Finished
        /\ raised = NoException
        /\ ret = "None"
        /\ Len(requests) = 1
        /\ requests[1].method = "GET"
        /\ requests[1].url = <<"https://graph.microsoft.com/v1.0", "/me/messages">>
        /\ requests[1].headers.Authorization = <<"Bearer ", InteractiveToken>>
        /\ Len(output) = 1
        /\ output[1][1] = "Error fetching emails: "
        /\ output[1][2] = response["get_inbox_emails"].status_code
        /\ output[1][4] = response["get_inbox_emails"].content
        /\ emails = <<>>
        /\ idx = 0

C6_Witness ==
    /\ entry = "get_inbox_emails"
    /\ response["get_inbox_emails"].status_code = 401
    /\ Len(response["get_inbox_emails"].content.value) = 2
    /\ Finished
    /\ Len(output) = 1

\* C7: when an interactive acquisition yields no access token,
\* get_access_token raises the exception that carries the provider's error
\* description, no further acquisition is made, and the calling function
\* (send_email, get_inbox_emails, get_cached_access_token, the script) issues
\* no HTTP request and reports nothing after it: requests and output hold only
\* what the operations before the failing one produced.
C7_AuthenticationFailurePropagates ==
    (entry # "none" /\ InteractiveFailed) =>
        /\ raised.type = "Exception"
        /\ raised.args = <<"could not authenticate: ", ProviderDescription>>
        /\ idpCalls[Len(idpCalls)].method = "acquire_token_interactive"
        /\ Len(requests) = CountCalls("acquire_token_interactive") - 1
        /\ Len(output) = CountCalls("acquire_token_interactive") - 1
        /\ entry # "__main__" => CountCalls("acquire_token_interactive") = 1

C7_Witness ==
    /\ entry \in {"send_email", "get_inbox_emails"}
    /\ InteractiveFailed
    /\ Finished
    /\ raised.type = "Exception"
    /\ raised.args[2] = "consent denied"
    /\ requests = <<>>


\* C8: in a run of the script: once the send's token has been acquired the
\* run goes on whatever status the POST received, and when it has ended
\* the listing was started (its token acquisition was made); when a token
\* acquisition fails an exception is in flight, and nothing is executed after
\* it: no POST and no listing after a failed first acquisition, no GET and
\* no listing output after a failed second one.
C8_MainRunOrder ==
    (entry = "__main__") =>
        /\ (access_token["send_email"] # "None" /\ Finished) =>
              CountCalls("acquire_token_interactive") = 2
        /\ (Len(requests) >= 1 /\ CountCalls("acquire_token_interactive") = 1) =>
              /\ raised = NoException
              /\ stack # <<>>
              /\ Len(output) = 1
        /\ (result["get_access_token"].kind = "dict" /\ ~InteractiveHasToken) =>
              /\ raised # NoException
              /\ Len(requests) = CountCalls("acquire_token_interactive") - 1
              /\ \A i \in DOMAIN requests : requests[i].method = "POST"
              /\ Len(output) = CountCalls("acquire_token_interactive") - 1
              /\ access_token["get_inbox_emails"] = "None"
              /\ CountCalls("acquire_token_interactive") = 1 =>
                    /\ access_token["send_email"] = "None"
                    /\ \A i \in DOMAIN stack : stack[i].fn # "get_inbox_emails"

C8_Witness ==
    /\ entry = "__main__"
    /\ Finished
    /\ response["send_email"].status_code = 400
    /\ CountCalls("acquire_token_interactive") = 2
    /\ Len(requests) = 2
    /\ requests[2].method = "GET"

\* C9: a call of send_email or get_inbox_emails ends in a raised failure only
\* when its token acquisition failed: for every response of the mail API
\* with a JSON body, message objects that lack a sender, subject or preview
\* included, the call returns normally.
C9_OnlyAuthenticationFailureRaises ==
    (entry \in MailFns /\ response["get_inbox_emails"].content.kind = "object") =>
        raised = NoException

\* C10: a call of get_cached_access_token with a cached account whose silent
\* lookup yields no token (None, or a result without an access token) falls
\* back to the interactive acquisition, so that the call ends by returning
\* an access token or with the authentication error, never otherwise.
C10_CachedEndsWithTokenOrAuthenticationError ==
    (entry = "get_cached_access_token" /\ idp.accounts # <<>> /\ ~SilentHasToken
        /\ idpCalls # <<>>) =>
        /\ \/ stack = <<Frame("get_cached_access_token", "return"),
                        Frame("get_access_token", "start")>>
           \/ CountCalls("acquire_token_interactive") = 1
        /\ Finished =>
              \/ raised = NoException /\ ret \in Tokens
              \/ raised.type = "Exception"

====
